---- MODULE Spec2Model ----
(***************************************************************************)
(* State-machine model of src/tda_pipeline.py: the three scikit-learn      *)
(* style transformers DataSelector, RipsPersistence and LPNorm.            *)
(*                                                                         *)
(* Three specifications share the variables, one per transformer:          *)
(*   SpecSelector  DataSelector.transform over a table                     *)
(*   SpecRips      RipsPersistence.transform over a batch of point clouds  *)
(*   SpecNorm      LPNorm.transform over a batch of arrays                 *)
(* A transformer that a specification does not exercise stays idle.        *)
(***************************************************************************)
EXTENDS Integers, Sequences, FiniteSets

VARIABLES
    table,      \* DataSelector: the DataFrame X, a sequence of rows
    selector,   \* DataSelector: self (start, end, w)
    windows,    \* DataSelector: value returned by transform
    ds_pc,      \* DataSelector: "constructed" | "returned" | "raised"
    rips,       \* RipsPersistence: self (the constructor's parameters)
    clouds,     \* RipsPersistence: the batch X handed to transform
    tasks,      \* RipsPersistence: one record per delayed call
    slots,      \* RipsPersistence: results collected by Parallel
    batch,      \* RipsPersistence: "idle" | "running" | "returned" | "raised"
    diagrams,   \* RipsPersistence: value returned by transform
    completed,  \* RipsPersistence: indices of the tasks, in completion order
    items,      \* LPNorm: the batch X handed to transform
    norms,      \* LPNorm: value returned by transform
    lp_pc       \* LPNorm: "constructed" | "returned" | "raised"

vars == <<table, selector, windows, ds_pc, rips, clouds, tasks, slots, batch,
          diagrams, completed, items, norms, lp_pc>>

ds_vars == <<table, selector, windows, ds_pc>>
rips_vars == <<rips, clouds, tasks, slots, batch, diagrams, completed>>
lp_vars == <<items, norms, lp_pc>>

(***************************************************************************)
(* Bounds of the model.                                                    *)
(***************************************************************************)
MaxRows == 10       \* rows of the table, 0..MaxRows
MaxCols == 2        \* columns of the table, 1..MaxCols
MaxW == 5           \* window width, -1..MaxW
MaxBatch == 2       \* point clouds handed to RipsPersistence.transform
MaxDim == 1         \* max_persistence_dimension, 0..MaxDim
MaxJobs == 2        \* n_jobs, None or 1..MaxJobs
MaxItems == 2       \* arrays handed to LPNorm.transform
MaxLen == 2         \* entries of a one-dimensional array, rows of a diagram

\* Python's None, and a value v that is not None, as sequences of length 0, 1.
None == <<>>
Some(v) == <<v>>

Max(a, b) == IF a > b THEN a ELSE b
Min(a, b) == IF a < b THEN a ELSE b

(***************************************************************************)
(* Python and pandas primitives used by DataSelector.transform.            *)
(***************************************************************************)
\* range(lo, hi): lo, lo+1, ..., hi-1; empty when hi <= lo.
range(lo, hi) == [k \in 1..Max(hi - lo, 0) |-> lo + k - 1]

\* A slice bound i normalised against a length n, as Python's slice.indices
\* does for step 1: a negative bound counts from the end, and the result is
\* clamped to 0..n.
SliceIndex(i, n) == IF i < 0 THEN Max(i + n, 0) ELSE Min(i, n)

\* X.iloc[lo:hi].values: the rows with 0-based positions a..b-1, in order,
\* where a and b are the normalised bounds.  Never raises.
iloc(T, lo, hi) ==
    LET a == SliceIndex(lo, Len(T))
        b == SliceIndex(hi, Len(T))
    IN [k \in 1..Max(b - a, 0) |-> T[a + k]]

\* The table with n rows and d columns whose cell (p, j), p 0-based, holds
\* p * d + j - 1: every row identifies its position.
Cell(p, j, d) == p * d + j - 1
Frame(n, d) == [p1 \in 1..n |-> [j \in 1..d |-> Cell(p1 - 1, j, d)]]
PosOf(row) == row[1] \div Len(row)

(***************************************************************************)
(* DataSelector                                                            *)
(***************************************************************************)
\* Mutant: the range runs one index too far.
WindowEndsInclusive(self) == range(self.start + self.w, self.end + 1)

\* The idx values of the comprehension: range(self.start+self.w, self.end).
WindowEnds(self) == range(self.start + self.w, self.end)

\* Mutant: the slice is shifted by one row.
WindowShifted(self, T, idx) == iloc(T, idx - self.w + 1, idx + 1)

\* X.iloc[(idx - self.w):idx].values
Window(self, T, idx) == iloc(T, idx - self.w, idx)

\* Mutant: a bounds-checked selection that raises when the range runs past
\* the table.
DataSelector_transform_checked(self, T) ==
    IF self.end > Len(T)
    THEN [raised |-> TRUE, value |-> <<>>]
    ELSE [raised |-> FALSE,
          value |-> [k \in 1..Len(WindowEnds(self)) |->
                        Window(self, T, WindowEnds(self)[k])]]

\* DataSelector.transform: the list comprehension; nothing in it raises for
\* integer start, end, w.
DataSelector_transform(self, T) ==
    [raised |-> FALSE,
     value |-> [k \in 1..Len(WindowEnds(self)) |->
                   Window(self, T, WindowEnds(self)[k])]]

\* DataSelector.__init__ stores its arguments unchecked.
DataSelector_init(start, end, w) == [start |-> start, end |-> end, w |-> w]

SelectorParams ==
    {DataSelector_init(s, e, w) :
        s \in -1..MaxRows, e \in -1..(MaxRows + 2), w \in -1..MaxW}

Frames == {Frame(n, d) : n \in 0..MaxRows, d \in 1..MaxCols}

DSIdle ==
    /\ table = <<>>
    /\ selector = DataSelector_init(0, 0, 1)
    /\ windows = <<>>
    /\ ds_pc = "off"

DSInit ==
    /\ table \in Frames
    /\ selector \in SelectorParams
    /\ windows = <<>>
    /\ ds_pc = "constructed"

DSTransform ==
    /\ ds_pc = "constructed"
    /\ LET r == DataSelector_transform(selector, table)
       IN /\ windows' = r.value
          /\ ds_pc' = IF r.raised THEN "raised" ELSE "returned"
    /\ UNCHANGED <<table, selector, rips_vars, lp_vars>>

(***************************************************************************)
(* The topology engine (gudhi), as RipsPersistence drives it.  A complex   *)
(* is a record of what has been done to it; a diagram names the complex    *)
(* state it was read from.  The engine is a black box: it raises on a      *)
(* malformed point cloud, and what compute_persistence does with a         *)
(* coefficient field that is not prime is its own business (it may raise   *)
(* or go on), so both outcomes are modelled.                               *)
(***************************************************************************)
PointClouds == {"A", "B", "malformed"}
IsPrime(n) == n > 1 /\ \A k \in 2..(n - 1) : n % k # 0
CoeffFields == {11, 4}
Infinity == "inf"

\* RipsComplex(points=points, max_edge_length=...)
RipsComplex(points, max_edge_length) ==
    [points |-> points, max_edge_length |-> max_edge_length]

\* rips.create_simplex_tree(max_dimension=dim)
create_simplex_tree(rc, dim) ==
    [points |-> rc.points, max_edge_length |-> rc.max_edge_length,
     dimension |-> dim, collapsed |-> FALSE, persistence |-> None]

\* stree.collapse_edges()
collapse_edges(st) == [st EXCEPT !.collapsed = TRUE]

\* stree.expansion(dim)
expansion(st, dim) == [st EXCEPT !.dimension = dim]

\* stree.compute_persistence(homology_coeff_field=..., min_persistence=...)
compute_persistence(st, field, min_persistence) ==
    [st EXCEPT !.persistence =
        Some([homology_coeff_field |-> field,
              min_persistence |-> min_persistence])]

\* stree.persistence_intervals_in_dimension(dim)
persistence_intervals_in_dimension(st, dim) == [H |-> dim, stree |-> st]

(***************************************************************************)
(* RipsPersistence                                                         *)
(***************************************************************************)
\* RipsPersistence.__init__ stores its arguments unchecked.
RipsPersistence_init(mrd, collapse, mpd, otd, field, n_jobs) ==
    [max_rips_dimension |-> mrd,
     max_edge_length |-> Infinity,
     collapse_edges |-> collapse,
     max_persistence_dimension |-> mpd,
     only_this_dim |-> otd,
     homology_coeff_field |-> field,
     min_persistence |-> 0,
     n_jobs |-> n_jobs]

RipsParams ==
    {RipsPersistence_init(r, c, m, o, f, j) :
        r \in 1..2, c \in BOOLEAN, m \in 0..MaxDim, o \in -1..MaxDim,
        f \in CoeffFields, j \in {None} \cup {Some(n) : n \in 1..MaxJobs}}

\* Mutant: the collapse_edges flag is ignored and the complex is built
\* directly to max_rips_dimension.
BuildDirect(self, rc) ==
    [stree |-> create_simplex_tree(rc, self.max_rips_dimension),
     calls |-> << <<"create_simplex_tree", self.max_rips_dimension>> >>]

\* The if/else on self.collapse_edges of __transform and of
\* __transform_only_this_dim (the same text in both): the complex, and the
\* engine calls made on it, in order.
BuildSimplexTree(self, rc) ==
    IF self.collapse_edges
    THEN [stree |-> expansion(collapse_edges(create_simplex_tree(rc, 1)),
                              self.max_rips_dimension),
          calls |-> << <<"create_simplex_tree", 1>>, <<"collapse_edges">>,
                       <<"expansion", self.max_rips_dimension>> >>]
    ELSE [stree |-> create_simplex_tree(rc, self.max_rips_dimension),
          calls |-> << <<"create_simplex_tree", self.max_rips_dimension>> >>]

\* Mutant: the range stops one dimension short.
PersistenceDimsShort(self) == range(0, self.max_persistence_dimension)

\* range(self.max_persistence_dimension + 1)
PersistenceDims(self) == range(0, self.max_persistence_dimension + 1)

\* The return statement of __transform: one diagram per dimension.
Extract(self, st) ==
    [value |-> [k \in 1..Len(PersistenceDims(self)) |->
                  persistence_intervals_in_dimension(st, PersistenceDims(self)[k])],
     calls |-> [k \in 1..Len(PersistenceDims(self)) |->
                  <<"persistence_intervals_in_dimension", PersistenceDims(self)[k]>>]]

\* The return statement of __transform_only_this_dim: the diagram itself.
ExtractOnlyThisDim(self, st) ==
    [value |-> persistence_intervals_in_dimension(st, self.only_this_dim),
     calls |-> << <<"persistence_intervals_in_dimension", self.only_this_dim>> >>]

\* transform's test: __transform when only_this_dim is -1, else
\* __transform_only_this_dim.
TaskReturnValue(self, st) ==
    IF self.only_this_dim = -1 THEN Extract(self, st)
    ELSE ExtractOnlyThisDim(self, st)

\* Parallel(n_jobs=self.n_jobs, prefer="threads"): None means one worker.
Workers(self) == IF self.n_jobs = None THEN 1 ELSE self.n_jobs[1]

EmptySlot == [filled |-> FALSE, value |-> <<>>]
NewTask == [pc |-> "pending", runs |-> 0, calls |-> <<>>, stree |-> <<>>]

\* Mutant: results are collected in completion order.
StoreNext(sl, i, v) ==
    LET free == {j \in 1..Len(sl) : ~sl[j].filled}
        j == CHOOSE m \in free : \A n \in free : m <= n
    IN [sl EXCEPT ![j] = [filled |-> TRUE, value |-> v]]

\* Parallel keeps the result of the i-th delayed call at index i.
Store(sl, i, v) == [sl EXCEPT ![i] = [filled |-> TRUE, value |-> v]]

\* Mutant: failed point clouds are dropped and the rest is returned.
ParallelDropFailed(ts, sl) ==
    IF \A i \in 1..Len(ts) : ts[i].pc \in {"done", "failed"}
    THEN [kind |-> "return",
          value |-> LET kept == SelectSeq(sl, LAMBDA e : e.filled)
                    IN [i \in 1..Len(kept) |-> kept[i].value]]
    ELSE [kind |-> "wait", value |-> <<>>]

\* What the call Parallel(...)(...) does once tasks end: an exception of a
\* task is re-raised in the caller (neither transform nor the task bodies
\* catch anything); otherwise the list of results, in input order.
ParallelOutcome(ts, sl) ==
    IF \E i \in 1..Len(ts) : ts[i].pc = "failed"
    THEN [kind |-> "raise", value |-> <<>>]
    ELSE IF \A i \in 1..Len(ts) : ts[i].pc = "done"
    THEN [kind |-> "return", value |-> [i \in 1..Len(sl) |-> sl[i].value]]
    ELSE [kind |-> "wait", value |-> <<>>]

RECURSIVE SeqsUpTo(_, _)
SeqsUpTo(S, n) ==
    IF n = 0 THEN {<<>>}
    ELSE LET shorter == SeqsUpTo(S, n - 1)
         IN shorter \cup {Append(s, x) : s \in {t \in shorter : Len(t) = n - 1}, x \in S}

RPIdle ==
    /\ rips = RipsPersistence_init(2, TRUE, 0, -1, 11, None)
    /\ clouds = <<>>
    /\ tasks = <<>>
    /\ slots = <<>>
    /\ batch = "off"
    /\ diagrams = <<>>
    /\ completed = <<>>

RPInit ==
    /\ rips \in RipsParams
    /\ clouds \in SeqsUpTo(PointClouds, MaxBatch)
    /\ tasks = <<>>
    /\ slots = <<>>
    /\ batch = "idle"
    /\ diagrams = <<>>
    /\ completed = <<>>

Running == {i \in 1..Len(tasks) : tasks[i].pc \in {"rips", "built", "persisted"}}
Failed == {i \in 1..Len(tasks) : tasks[i].pc = "failed"}

\* transform is called: one delayed call per point cloud, none started.
RPTransform ==
    /\ batch = "idle"
    /\ batch' = "running"
    /\ tasks' = [i \in 1..Len(clouds) |-> NewTask]
    /\ slots' = [i \in 1..Len(clouds) |-> EmptySlot]
    /\ UNCHANGED <<rips, clouds, diagrams, completed, ds_vars, lp_vars>>

\* A worker takes the next delayed call and runs its first statement,
\* RipsComplex(points=...), which raises on a malformed point cloud.
\* With one worker the calls run in the caller, one after the other, and
\* an exception ends the loop.
TaskStart(i) ==
    /\ batch = "running"
    /\ tasks[i].pc = "pending"
    /\ \A j \in 1..(i - 1) : tasks[j].pc # "pending"
    /\ Cardinality(Running) < Workers(rips)
    /\ Workers(rips) = 1 => Failed = {}
    /\ tasks' = [tasks EXCEPT ![i] =
          IF clouds[i] = "malformed"
          THEN [@ EXCEPT !.pc = "failed", !.runs = @ + 1,
                         !.calls = << <<"RipsComplex">> >>]
          ELSE [@ EXCEPT !.pc = "rips", !.runs = @ + 1,
                         !.calls = << <<"RipsComplex">> >>,
                         !.stree = RipsComplex(clouds[i], rips.max_edge_length)]]
    /\ UNCHANGED <<rips, clouds, slots, batch, diagrams, completed, ds_vars, lp_vars>>

\* The task builds its simplex tree.
TaskBuild(i) ==
    /\ batch \in {"running", "raised"}
    /\ tasks[i].pc = "rips"
    /\ LET b == BuildSimplexTree(rips, tasks[i].stree)
       IN tasks' = [tasks EXCEPT ![i] =
             [@ EXCEPT !.pc = "built", !.calls = @ \o b.calls, !.stree = b.stree]]
    /\ UNCHANGED <<rips, clouds, slots, batch, diagrams, completed, ds_vars, lp_vars>>

\* The task calls compute_persistence.  The engine may reject a field that
\* is not prime.
TaskPersist(i) ==
    /\ batch \in {"running", "raised"}
    /\ tasks[i].pc = "built"
    /\ \E rejected \in IF IsPrime(rips.homology_coeff_field) THEN {FALSE} ELSE BOOLEAN :
         tasks' = [tasks EXCEPT ![i] =
            [@ EXCEPT !.pc = IF rejected THEN "failed" ELSE "persisted",
                      !.calls = Append(@, <<"compute_persistence",
                                            rips.homology_coeff_field,
                                            rips.min_persistence>>),
                      !.stree = IF rejected THEN @
                                ELSE compute_persistence(@, rips.homology_coeff_field,
                                                         rips.min_persistence)]]
    /\ UNCHANGED <<rips, clouds, slots, batch, diagrams, completed, ds_vars, lp_vars>>

\* The task reads its diagrams and returns them; Parallel keeps the value.
TaskReturn(i) ==
    /\ batch \in {"running", "raised"}
    /\ tasks[i].pc = "persisted"
    /\ LET r == TaskReturnValue(rips, tasks[i].stree)
       IN /\ tasks' = [tasks EXCEPT ![i] =
                [@ EXCEPT !.pc = "done", !.calls = @ \o r.calls]]
          /\ slots' = Store(slots, i, r.value)
    /\ completed' = Append(completed, i)
    /\ UNCHANGED <<rips, clouds, batch, diagrams, ds_vars, lp_vars>>

\* The call Parallel(...)(...) ends, and transform with it.
RPFinish ==
    /\ batch = "running"
    /\ LET r == ParallelOutcome(tasks, slots)
       IN /\ r.kind # "wait"
          /\ batch' = IF r.kind = "raise" THEN "raised" ELSE "returned"
          /\ diagrams' = r.value
    /\ UNCHANGED <<rips, clouds, tasks, slots, completed, ds_vars, lp_vars>>

(***************************************************************************)
(* numpy.linalg.norm, as LPNorm calls it: norm(x, ord=1) and               *)
(* norm(x, ord=2) with no axis.  An array is its shape and its entries in  *)
(* row-major order: shape <<n>> (one dimension, a landscape) or <<n, 2>>   *)
(* (two dimensions, n rows of birth and death, which is also the shape     *)
(* <<0, 2>> of the empty diagram the engine returns).                      *)
(*                                                                         *)
(* An L2 value is kept exactly: [p, q] stands for sqrt((p + sqrt(q)) / 2), *)
(* with q = 0 whenever sqrt(q) is an integer, so that equal reals have     *)
(* equal representations.                                                  *)
(***************************************************************************)
Abs(x) == IF x < 0 THEN -x ELSE x

RECURSIVE Sum(_)
Sum(s) == IF s = <<>> THEN 0 ELSE s[1] + Sum(Tail(s))

ISqrt(n) == CHOOSE r \in 0..n : r * r <= n /\ n < (r + 1) * (r + 1)

Surd(p, q) ==
    IF ISqrt(q) * ISqrt(q) = q THEN [p |-> p + ISqrt(q), q |-> 0]
    ELSE [p |-> p, q |-> q]

\* sqrt(s) for an integer s >= 0.
Sqrt(s) == Surd(2 * s, 0)

ndim(x) == Len(x.shape)
Column(x, j) == [k \in 1..x.shape[1] |-> x.data[2 * (k - 1) + j]]
AbsAll(s) == [k \in 1..Len(s) |-> Abs(s[k])]
Squares(s) == [k \in 1..Len(s) |-> s[k] * s[k]]
Products(s, t) == [k \in 1..Len(s) |-> s[k] * t[k]]

\* norm(x, ord=1).  One dimension: add.reduce(abs(x)).  Two dimensions: the
\* matrix norm add.reduce(abs(x), axis=0).max(), the largest column sum.
norm_ord1(x) ==
    IF ndim(x) = 1
    THEN [raised |-> FALSE, value |-> Sum(AbsAll(x.data))]
    ELSE [raised |-> FALSE,
          value |-> Max(Sum(AbsAll(Column(x, 1))), Sum(AbsAll(Column(x, 2))))]

\* norm(x, ord=2).  One dimension: sqrt(x.dot(x)).  Two dimensions: the
\* matrix norm amax(svd(x)), the largest singular value, i.e. the square
\* root of the largest eigenvalue of x^T x = [[a, b], [b, c]], which is
\* ((a + c) + sqrt((a - c)^2 + 4 b^2)) / 2; with no rows there is no
\* singular value and amax raises ValueError.
norm_ord2(x) ==
    IF ndim(x) = 1
    THEN [raised |-> FALSE, value |-> Sqrt(Sum(Squares(x.data)))]
    ELSE IF x.shape[1] = 0
    THEN [raised |-> TRUE, value |-> Sqrt(0)]
    ELSE LET a == Sum(Squares(Column(x, 1)))
             c == Sum(Squares(Column(x, 2)))
             b == Sum(Products(Column(x, 1), Column(x, 2)))
         IN [raised |-> FALSE,
             value |-> Surd(a + c, (a - c) * (a - c) + 4 * b * b)]

(***************************************************************************)
(* LPNorm                                                                  *)
(***************************************************************************)
\* LPNorm.transform: [[norm(l, ord=1), norm(l, ord=2)] for l in X]; an
\* exception of norm leaves the comprehension and transform.
LPNorm_transform(X) ==
    IF \E i \in 1..Len(X) : norm_ord1(X[i]).raised \/ norm_ord2(X[i]).raised
    THEN [raised |-> TRUE, value |-> <<>>]
    ELSE [raised |-> FALSE,
          value |-> [i \in 1..Len(X) |->
                       <<norm_ord1(X[i]).value, norm_ord2(X[i]).value>>]]

Entries == {-1, 0, 2}
Pairs == {<<b, d>> : b \in 0..2, d \in 0..2} \ {<<2, 0>>, <<2, 1>>, <<1, 0>>}
Flatten(rows) == [k \in 1..(2 * Len(rows)) |-> rows[(k + 1) \div 2][2 - (k % 2)]]
Arrays ==
    {[shape |-> <<Len(s)>>, data |-> s] : s \in SeqsUpTo(Entries, MaxLen)}
    \cup {[shape |-> <<Len(r), 2>>, data |-> Flatten(r)] : r \in SeqsUpTo(Pairs, MaxLen)}

LPIdle ==
    /\ items = <<>>
    /\ norms = <<>>
    /\ lp_pc = "off"

LPInit ==
    /\ items \in SeqsUpTo(Arrays, MaxItems)
    /\ norms = <<>>
    /\ lp_pc = "constructed"

LPTransform ==
    /\ lp_pc = "constructed"
    /\ LET r == LPNorm_transform(items)
       IN /\ norms' = r.value
          /\ lp_pc' = IF r.raised THEN "raised" ELSE "returned"
    /\ UNCHANGED <<items, ds_vars, rips_vars>>

(***************************************************************************)
(* Specifications                                                          *)
(***************************************************************************)
InitSelector == DSInit /\ RPIdle /\ LPIdle
NextSelector == DSTransform
SpecSelector == InitSelector /\ [][NextSelector]_vars

InitRips == DSIdle /\ RPInit /\ LPIdle
NextRips ==
    \/ RPTransform
    \/ \E i \in 1..Len(tasks) : TaskStart(i)
    \/ \E i \in 1..Len(tasks) : TaskBuild(i)
    \/ \E i \in 1..Len(tasks) : TaskPersist(i)
    \/ \E i \in 1..Len(tasks) : TaskReturn(i)
    \/ RPFinish
SpecRips == InitRips /\ [][NextRips]_vars

InitNorm == DSIdle /\ RPIdle /\ LPInit
NextNorm == LPTransform
SpecNorm == InitNorm /\ [][NextNorm]_vars

Init == InitSelector \/ InitRips \/ InitNorm
Next == NextSelector \/ NextRips \/ NextNorm
Spec == Init /\ [][Next]_vars

(***************************************************************************)
(* Properties of DataSelector (checked under SpecSelector)                 *)
(***************************************************************************)
ValidRange ==
    /\ selector.start >= 0
    /\ selector.w >= 1
    /\ selector.end > selector.start + selector.w
    /\ selector.end <= Len(table)

\* C1: for a valid start, end, w (start >= 0, w >= 1, end > start + w,
\* end <= number of rows) transform returns exactly end - start - w windows
\* and every window has w rows of d entries, d the table's column count.
C1_WindowCountAndShape ==
    (ds_pc # "constructed" /\ ValidRange) =>
        /\ ds_pc = "returned"
        /\ Len(windows) = selector.end - selector.start - selector.w
        /\ \A k \in 1..Len(windows) :
              /\ Len(windows[k]) = selector.w
              /\ \A r \in 1..Len(windows[k]) : Len(windows[k][r]) = Len(table[1])

C1_Witness ==
    /\ ds_pc = "returned"
    /\ ValidRange
    /\ selector.start = 1
    /\ Len(windows) = 3
    /\ Len(table[1]) = 2
    /\ Len(windows[3]) = 2

\* C2: for a valid range, the k-th window (k = 0 .. end - start - w - 1) is
\* the table rows at positions start + k .. start + k + w - 1, in table
\* order.
C2_WindowRows ==
    (ds_pc = "returned" /\ ValidRange) =>
        /\ Len(windows) = selector.end - selector.start - selector.w
        /\ \A k \in 0..(selector.end - selector.start - selector.w - 1) :
              windows[k + 1] =
                  [r \in 1..selector.w |-> table[selector.start + k + r]]

\* The scenario of the specification: 10 rows, 2 columns, start 0, end 10,
\* w 5; window 0 is rows [0, 5) and window 4 is rows [4, 9).
C2_Witness ==
    /\ ds_pc = "returned"
    /\ Len(table) = 10
    /\ Len(table[1]) = 2
    /\ selector = DataSelector_init(0, 10, 5)
    /\ Len(windows) = 5
    /\ windows[1] = <<table[1], table[2], table[3], table[4], table[5]>>
    /\ windows[5] = <<table[5], table[6], table[7], table[8], table[9]>>

C3_DiagramCount ==
    \A i \in 1..Len(slots) : slots[i].filled =>
        IF rips.only_this_dim = -1
        THEN /\ Len(slots[i].value) = rips.max_persistence_dimension + 1
             /\ \A k \in 0..rips.max_persistence_dimension :
                   slots[i].value[k + 1].H = k
        ELSE /\ DOMAIN slots[i].value = {"H", "stree"}
             /\ slots[i].value.H = rips.only_this_dim

C3_Witness ==
    /\ rips.only_this_dim = -1
    /\ rips.max_persistence_dimension = 1
    /\ \E i \in 1..Len(slots) : slots[i].filled /\ Len(slots[i].value) = 2

\* The point clouds the diagrams of a returned value were computed from.
SourcesOf(v) ==
    IF rips.only_this_dim = -1 THEN {v[k].stree.points : k \in 1..Len(v)}
    ELSE {v.stree.points}

C4_InputOrder ==
    batch = "returned" =>
        /\ Len(diagrams) = Len(clouds)
        /\ \A i \in 1..Len(clouds) : SourcesOf(diagrams[i]) = {clouds[i]}

C4_Isolation ==
    /\ rips' = rips
    /\ clouds' = clouds
    /\ \A i \in 1..Len(tasks) :
          tasks'[i] # tasks[i] =>
             /\ \A j \in 1..Len(tasks) : j # i => tasks'[j] = tasks[j]
             /\ \A j \in 1..Len(slots) :
                   slots'[j].filled # slots[j].filled =>
                      j = i /\ tasks[i].pc = "persisted"
             /\ tasks[i].stree # <<>> => tasks[i].stree.points = clouds[i]

\* C4: whatever the number of workers and the order in which tasks run and
\* end, the returned list is as long as the input and its element i comes
\* from point cloud i; a step of a task leaves the configuration, the
\* input and the other tasks alone and fills no slot but its own.
C4_OrderPreserved == []C4_InputOrder /\ [][C4_Isolation]_vars

\* Two different point clouds, the second of which ended first.
C4_Witness ==
    /\ batch = "returned"
    /\ Len(clouds) = 2
    /\ clouds[1] # clouds[2]
    /\ completed = <<2, 1>>

\* C5: with a homology_coeff_field that is not prime, transform fails
\* before any computation: no task constructs a complex, and nothing is
\* returned.
C5_FailFast ==
    ~IsPrime(rips.homology_coeff_field) =>
        /\ batch # "returned"
        /\ \A i \in 1..Len(tasks) : tasks[i].calls = <<>>

\* C6: once a task has failed, transform returns nothing (it raises), and
\* a transform that has ended has raised exactly when a task failed; no
\* task is run more than once.
C6_FailurePropagates ==
    /\ Failed # {} => batch # "returned" /\ diagrams = <<>>
    /\ batch \in {"returned", "raised"} => (batch = "raised" <=> Failed # {})
    /\ (batch = "running" /\ Failed # {}) => ENABLED RPFinish
    /\ \A i \in 1..Len(tasks) : tasks[i].runs <= 1

\* A batch that raised although another of its tasks had returned a value.
C6_Witness ==
    /\ batch = "raised"
    /\ diagrams = <<>>
    /\ \E i \in 1..Len(slots) : slots[i].filled
    /\ \E i \in 1..Len(tasks) : tasks[i].pc = "failed" /\ tasks[i].runs = 1

\* The engine calls of one task, in the order the claim gives them.
ClaimedCalls ==
    << <<"RipsComplex">> >>
    \o (IF rips.collapse_edges
        THEN << <<"create_simplex_tree", 1>>, <<"collapse_edges">>,
                <<"expansion", rips.max_rips_dimension>> >>
        ELSE << <<"create_simplex_tree", rips.max_rips_dimension>> >>)
    \o << <<"compute_persistence", rips.homology_coeff_field, rips.min_persistence>> >>
    \o (IF rips.only_this_dim = -1
        THEN [k \in 1..(rips.max_persistence_dimension + 1) |->
                 <<"persistence_intervals_in_dimension", k - 1>>]
        ELSE << <<"persistence_intervals_in_dimension", rips.only_this_dim>> >>)

IsPrefix(s, t) == Len(s) <= Len(t) /\ \A k \in 1..Len(s) : s[k] = t[k]

\* C9: in both paths a task calls the engine in a fixed order, on its own
\* complex: build to dimension 1, collapse, expand to max_rips_dimension
\* when collapse_edges is set, build directly to max_rips_dimension
\* otherwise; then compute_persistence once, with the configured field and
\* min_persistence; then the diagrams.
C9_EngineCallOrder ==
    \A i \in 1..Len(tasks) :
        /\ IsPrefix(tasks[i].calls, ClaimedCalls)
        /\ tasks[i].pc = "done" =>
              /\ tasks[i].calls = ClaimedCalls
              /\ tasks[i].stree.points = clouds[i]
              /\ tasks[i].stree.dimension = rips.max_rips_dimension
              /\ tasks[i].stree.collapsed = rips.collapse_edges
              /\ tasks[i].stree.persistence =
                    Some([homology_coeff_field |-> rips.homology_coeff_field,
                          min_persistence |-> rips.min_persistence])
        /\ slots[i].filled => tasks[i].pc = "done"

C9_Witness ==
    /\ rips.collapse_edges
    /\ rips.max_rips_dimension = 2
    /\ rips.only_this_dim # -1
    /\ \E i \in 1..Len(tasks) : tasks[i].pc = "done" /\ Len(tasks[i].calls) = 6

(***************************************************************************)
(* Properties of LPNorm (checked under SpecNorm)                           *)
(***************************************************************************)
IsEmpty(x) == x.shape[1] = 0

\* C7: an empty array in the input, a vector of length 0 or a diagram of
\* shape (0, 2), gives the pair (0.0, 0.0), and transform does not raise.
C7_EmptyIsZero ==
    lp_pc # "constructed" =>
        \A i \in 1..Len(items) : IsEmpty(items[i]) =>
            /\ lp_pc = "returned"
            /\ norms[i] = <<0, Sqrt(0)>>

\* C8: one pair per item, in input order: the sum of the absolute values
\* of all entries of the item, and the Euclidean norm of all its entries.
C8_L1L2OfAllEntries ==
    lp_pc = "returned" =>
        /\ Len(norms) = Len(items)
        /\ \A i \in 1..Len(items) :
              norms[i] = <<Sum(AbsAll(items[i].data)),
                           Sqrt(Sum(Squares(items[i].data)))>>
====
